---- MODULE Spec2Model ----
(***************************************************************************)
(* UTF-8 codec of textenc: next_codepoint / decode                         *)
(* (src/listings/utf8-decoder.cpp) and encode                              *)
(* (src/listings/utf8-encoder.cpp), as a state machine over one call of    *)
(* the public interface on a bounded input.                                *)
(***************************************************************************)
EXTENDS Integers, Sequences, FiniteSets

(* ---------------------------------------------------------------- bounds *)

\* Longest input buffer explored.
MaxLen == 4

\* Longest vector an encode() call that flows off its end may hand back.
MaxGarbageLen == 1

\* Bytes the input buffers are built from: an ASCII byte (0x41), continuation
\* bytes (0x80 0x82 0xA0 0xAC), the overlong lead 0xC0, valid 2-, 3- and
\* 4-byte leads (0xC2, 0xE2 0xED, 0xF4) and the invalid lead 0xF8.  One byte
\* at least falls in each range next_codepoint tells apart: < 0x80, < 0xE0,
\* < 0xF0 and above.
ByteSet == {65, 128, 130, 160, 172, 192, 194, 226, 237, 244, 248}

\* Code points handed to encode: the ends of every length class, the
\* surrogate range and the first value past U+10FFFF.
CodePointSet ==
  {0, 65, 127, 128, 162, 2047, 2048, 8364, 55295, 55296, 57343, 57344,
   65535, 65536, 66376, 1114111, 1114112}

\* Values a read of a disengaged std::optional<codepoint> may yield.
IndeterminateValues == {0, 8364, 2147483647}

(* ------------------------------------------------- constants of the code *)

B2_MASK == 31
B3_MASK == 15
B4_MASK == 7
MB_MASK == 63

(* ------------------------------------------------------ bit operations   *)

RECURSIVE BitAnd(_, _)
BitAnd(a, b) ==
  IF a = 0 \/ b = 0 THEN 0
  ELSE (a % 2) * (b % 2) + 2 * BitAnd(a \div 2, b \div 2)

RECURSIVE BitOr(_, _)
BitOr(a, b) ==
  IF a = 0 THEN b
  ELSE IF b = 0 THEN a
  ELSE (IF a % 2 = 1 \/ b % 2 = 1 THEN 1 ELSE 0) + 2 * BitOr(a \div 2, b \div 2)

\* x << n on codepoint (unsigned int).  The widest shift in the code is a
\* 3-bit value by 18, so no bit ever leaves the 32-bit word.
Shl(x, n) == x * (2 ^ n)

(* ------------------------------------------------- std::optional<codepoint> *)

Nothing == [kind |-> "nothing", value |-> 0]
Some(v) == [kind |-> "value", value |-> v]

(* --------------------------------------------------------- next_codepoint *)

\* *iter, for a cursor at offset i from bytes.cbegin().
Deref(bs, i) == bs[i + 1]

\* utf8-decoder.cpp:33-34
Decode2(b0, b1) ==
  LET acc == Shl(BitAnd(b0, B2_MASK), 6)
  IN  BitOr(acc, BitAnd(b1, MB_MASK))

\* A 3-byte accumulation that shifts the lead by 6 instead of 12.
Decode3ShiftSlip(b0, b1, b2) ==
  LET acc0 == Shl(BitAnd(b0, B3_MASK), 6)
      acc1 == BitOr(acc0, Shl(BitAnd(b1, MB_MASK), 6))
  IN  BitOr(acc1, BitAnd(b2, MB_MASK))

\* utf8-decoder.cpp:47-49
Decode3(b0, b1, b2) ==
  LET acc0 == Shl(BitAnd(b0, B3_MASK), 12)
      acc1 == BitOr(acc0, Shl(BitAnd(b1, MB_MASK), 6))
  IN  BitOr(acc1, BitAnd(b2, MB_MASK))

\* utf8-decoder.cpp:62-65
Decode4(b0, b1, b2, b3) ==
  LET acc0 == Shl(BitAnd(b0, B4_MASK), 18)
      acc1 == BitOr(acc0, Shl(BitAnd(b1, MB_MASK), 12))
      acc2 == BitOr(acc1, Shl(BitAnd(b2, MB_MASK), 6))
  IN  BitOr(acc2, BitAnd(b3, MB_MASK))

\* The outcome of one call: the cursor on return, the returned optional and
\* the offsets the call dereferenced.
Outcome(it, r, rd) == [iter |-> it, ret |-> r, reads |-> rd]

\* next_codepoint whose mid-sequence end test is `iter + 1 == end`, leaving
\* the cursor on the lead byte.
next_codepoint_peek(bs, it) ==
  LET end == Len(bs)
      b0 == Deref(bs, it)
      b1 == Deref(bs, it + 1)
      b2 == Deref(bs, it + 2)
      b3 == Deref(bs, it + 3)
  IN  IF it = end THEN Outcome(it, Nothing, {})
      ELSE IF b0 < 128 THEN Outcome(it + 1, Some(b0), {it})
      ELSE IF it + 1 = end THEN Outcome(it, Nothing, {it})
      ELSE IF b0 < 224
        THEN Outcome(it + 2, Some(Decode2(b0, b1)), {it, it + 1})
      ELSE IF it + 2 = end THEN Outcome(it + 2, Nothing, {it, it + 1})
      ELSE IF b0 < 240
        THEN Outcome(it + 3, Some(Decode3(b0, b1, b2)), {it, it + 1, it + 2})
      ELSE IF it + 3 = end
        THEN Outcome(it + 3, Nothing, {it, it + 1, it + 2})
      ELSE Outcome(it + 4, Some(Decode4(b0, b1, b2, b3)),
                   {it, it + 1, it + 2, it + 3})

\* utf8-decoder.cpp:8-66; `it` is the cursor on entry, Len(bs) is `end`.
next_codepoint(bs, it) ==
  LET end == Len(bs)
      b0 == Deref(bs, it)
      b1 == Deref(bs, it + 1)
      b2 == Deref(bs, it + 2)
      b3 == Deref(bs, it + 3)
  IN  IF it = end THEN Outcome(it, Nothing, {})
      ELSE IF b0 < 128 THEN Outcome(it + 1, Some(b0), {it})
      ELSE IF it + 1 = end THEN Outcome(it + 1, Nothing, {it})
      ELSE IF b0 < 224
        THEN Outcome(it + 2, Some(Decode2(b0, b1)), {it, it + 1})
      ELSE IF it + 2 = end THEN Outcome(it + 2, Nothing, {it, it + 1})
      ELSE IF b0 < 240
        THEN Outcome(it + 3, Some(Decode3(b0, b1, b2)), {it, it + 1, it + 2})
      ELSE IF it + 3 = end
        THEN Outcome(it + 3, Nothing, {it, it + 1, it + 2})
      ELSE Outcome(it + 4, Some(Decode4(b0, b1, b2, b3)),
                   {it, it + 1, it + 2, it + 3})

(* ------------------------------------------------------------------ encode *)

SeqsUpTo(S, n) == UNION {[1..k -> S] : k \in 0..n}

\* utf8-encoder.cpp:5-9.  For cp >= 128 control flows off the end of a
\* function returning std::vector<byte>: the call may crash, or hand back
\* whatever vector the caller finds in the return slot.
encode(c) ==
  IF c < 128
    THEN {[kind |-> "vector", bytes |-> <<c % 256>>]}
    ELSE {[kind |-> "crash", bytes |-> <<>>]}
         \cup {[kind |-> "vector", bytes |-> v] :
                 v \in SeqsUpTo(ByteSet, MaxGarbageLen)}

(* ------------------------------------------------------------------- state *)

VARIABLES
  entry,       \* what the caller runs: "roundtrip", "decode" or "step"
  pc,          \* "encode", "decode", "step", "returned" or "aborted"
  cp,          \* encode's argument (0 where no encode call is made)
  bytes,       \* the buffer the cursor ranges over
  iter,        \* the cursor, as an offset from bytes.cbegin()
  codepoints,  \* decode's result vector
  calls,       \* next_codepoint calls made so far
  last         \* the latest next_codepoint call, NoCall before the first

vars == <<entry, pc, cp, bytes, iter, codepoints, calls, last>>

NoCall == [start |-> -1, iter |-> -1, ret |-> Nothing, reads |-> {}]

Call(it, o) == [start |-> it, iter |-> o.iter, ret |-> o.ret, reads |-> o.reads]

Init ==
  /\ iter = 0
  /\ codepoints = <<>>
  /\ calls = 0
  /\ last = NoCall
  /\ \/ /\ entry \in {"decode", "step"}
        /\ pc = entry
        /\ cp = 0
        /\ bytes \in SeqsUpTo(ByteSet, MaxLen)
     \/ /\ entry = "roundtrip"
        /\ pc = "encode"
        /\ cp \in CodePointSet
        /\ bytes = <<>>

\* encode(cp), its result handed to decode (utf8-encoder.cpp:5-9,
\* utf8-decoder.cpp:71-75).
Encode ==
  /\ pc = "encode"
  /\ \E o \in encode(cp) :
       /\ pc' = IF o.kind = "crash" THEN "aborted" ELSE "decode"
       /\ bytes' = o.bytes
  /\ UNCHANGED <<entry, cp, iter, codepoints, calls, last>>

\* One iteration of decode's loop (utf8-decoder.cpp:76-79): a call of
\* next_codepoint and push_back(*cp).  *cp on a disengaged optional reads an
\* indeterminate value, or aborts where the library asserts.
DecodeLoop ==
  /\ pc = "decode"
  /\ iter # Len(bytes)
  /\ calls <= Len(bytes)
  /\ LET o == next_codepoint(bytes, iter)
     IN  /\ iter' = o.iter
         /\ last' = Call(iter, o)
         /\ calls' = calls + 1
         /\ IF o.ret.kind = "value"
              THEN /\ codepoints' = Append(codepoints, o.ret.value)
                   /\ pc' = pc
              ELSE \/ /\ \E g \in IndeterminateValues :
                           codepoints' = Append(codepoints, g)
                      /\ pc' = pc
                   \/ /\ codepoints' = codepoints
                      /\ pc' = "aborted"
  /\ UNCHANGED <<entry, cp, bytes>>

\* decode's loop exit and return (utf8-decoder.cpp:76, 81).
DecodeReturn ==
  /\ pc = "decode"
  /\ iter = Len(bytes)
  /\ pc' = "returned"
  /\ UNCHANGED <<entry, cp, bytes, iter, codepoints, calls, last>>

\* A caller of the single-step interface (41-utf8-parser.hpp:18-20) calling
\* next_codepoint on its own cursor, at end included.
StepCall ==
  /\ pc = "step"
  /\ calls <= Len(bytes)
  /\ LET o == next_codepoint(bytes, iter)
     IN  /\ iter' = o.iter
         /\ last' = Call(iter, o)
         /\ calls' = calls + 1
  /\ UNCHANGED <<entry, pc, cp, bytes, codepoints>>

Next == Encode \/ DecodeLoop \/ DecodeReturn \/ StepCall

Spec == Init /\ [][Next]_vars

(* ------------------------------------------- vocabulary of the properties *)

\* UTF-8 as the properties speak of it, in plain arithmetic on byte values.
IsContinuation(b) == 128 <= b /\ b <= 191

LeadLength(b) ==
  IF b < 128 THEN 1
  ELSE IF 192 <= b /\ b <= 223 THEN 2
  ELSE IF 224 <= b /\ b <= 239 THEN 3
  ELSE IF 240 <= b /\ b <= 247 THEN 4
  ELSE 0

LeadPayload(b) ==
  IF b < 128 THEN b
  ELSE IF b <= 223 THEN b - 192
  ELSE IF b <= 239 THEN b - 224
  ELSE b - 240

MinOfLength(n) == IF n = 1 THEN 0 ELSE IF n = 2 THEN 128 ELSE IF n = 3 THEN 2048 ELSE 65536

IsScalar(v) == 0 <= v /\ v <= 1114111 /\ ~(55296 <= v /\ v <= 57343)

\* The sequence at offset i has a valid lead and all its continuation bytes.
Structured(bs, i) ==
  /\ i < Len(bs)
  /\ LeadLength(bs[i + 1]) > 0
  /\ i + LeadLength(bs[i + 1]) <= Len(bs)
  /\ \A k \in 1..(LeadLength(bs[i + 1]) - 1) : IsContinuation(bs[i + 1 + k])

RECURSIVE Accumulate(_, _, _, _)
Accumulate(bs, i, k, acc) ==
  IF k = 0 THEN acc
  ELSE Accumulate(bs, i + 1, k - 1, acc * 64 + (bs[i + 1] - 128))

\* The value of the structured sequence at offset i.
ValueAt(bs, i) ==
  Accumulate(bs, i + 1, LeadLength(bs[i + 1]) - 1, LeadPayload(bs[i + 1]))

WellFormedAt(bs, i) ==
  /\ Structured(bs, i)
  /\ ValueAt(bs, i) >= MinOfLength(LeadLength(bs[i + 1]))
  /\ IsScalar(ValueAt(bs, i))

Malformed == <<-1>>

\* The code points of the well-formed sequences from offset i on, or
\* Malformed when a sequence from there on is not well formed.
RECURSIVE ParseFrom(_, _)
ParseFrom(bs, i) ==
  IF i = Len(bs) THEN <<>>
  ELSE IF ~WellFormedAt(bs, i) THEN Malformed
  ELSE LET rest == ParseFrom(bs, i + LeadLength(bs[i + 1]))
       IN  IF rest = Malformed THEN Malformed ELSE <<ValueAt(bs, i)>> \o rest

WellFormedBuffer(bs) == ParseFrom(bs, 0) # Malformed

\* The bytes from offset i on are a valid multi-byte encoding with one or
\* more of its final bytes removed.
TruncatedAt(bs, i) ==
  /\ i < Len(bs)
  /\ LeadLength(bs[i + 1]) >= 2
  /\ Len(bs) - i < LeadLength(bs[i + 1])
  /\ \E c \in 128..191 :
       LET missing == LeadLength(bs[i + 1]) - (Len(bs) - i)
           whole == SubSeq(bs, i + 1, Len(bs)) \o <<c>> \o [k \in 1..(missing - 1) |-> 128]
       IN  WellFormedAt(whole, 0)

\* The minimal encoding of section 4.2, by range class.
Utf8(c) ==
  IF c < 128 THEN <<c>>
  ELSE IF c < 2048 THEN <<192 + (c \div 64), 128 + (c % 64)>>
  ELSE IF c < 65536
    THEN <<224 + (c \div 4096), 128 + ((c \div 64) % 64), 128 + (c % 64)>>
  ELSE <<240 + (c \div 262144), 128 + ((c \div 4096) % 64),
         128 + ((c \div 64) % 64), 128 + (c % 64)>>

Called == last # NoCall

(* ------------------------------------------------------------- properties *)

\* C1: round trip.  For every valid code point cp, encode(cp) succeeds and
\* decode(encode(cp)) returns the one-element sequence [cp].
C1_RoundTrip ==
  (entry = "roundtrip" /\ IsScalar(cp)) =>
    /\ pc # "aborted"
    /\ pc = "returned" => codepoints = <<cp>>

\* C2: for every valid code point cp, encode(cp) returns exactly the
\* minimal-length byte sequence of its range class.
C2_EncodeMinimal ==
  (entry = "roundtrip" /\ IsScalar(cp) /\ pc # "encode") => bytes = Utf8(cp)

\* C3: on a buffer that is a concatenation of well-formed, minimal sequences
\* of valid code points, every next_codepoint call advances the cursor by
\* exactly the length of the sequence at the cursor and returns its value,
\* and decode returns those values in buffer order, one per sequence.
C3_DecodesWellFormed ==
  WellFormedBuffer(bytes) =>
    /\ (Called /\ last.start < Len(bytes)) =>
         /\ last.iter = last.start + LeadLength(bytes[last.start + 1])
         /\ last.ret = Some(ValueAt(bytes, last.start))
    /\ Len(codepoints) <= Len(ParseFrom(bytes, 0))
    /\ codepoints = SubSeq(ParseFrom(bytes, 0), 1, Len(codepoints))
    /\ pc = "returned" => codepoints = ParseFrom(bytes, 0)
    /\ entry = "decode" => pc # "aborted"

\* decode has returned [0x41, 0x20AC] for the buffer 0x41 0xE2 0x82 0xAC.
C3_Witness ==
  /\ pc = "returned"
  /\ bytes = <<65, 226, 130, 172>>
  /\ codepoints = <<65, 8364>>
  /\ last.start = 1 /\ last.iter = 4

\* C4: truncation detection.  Decoding a valid multi-byte encoding with one
\* or more of its final bytes removed fails with TruncatedSequence: the step
\* does not give the "no value" of a clean end of input, and decode does not
\* return a code-point sequence.
C4_TruncationDetected ==
  /\ (Called /\ TruncatedAt(bytes, last.start)) =>
       last.ret.kind = "TruncatedSequence"
  /\ (entry = "decode" /\ TruncatedAt(bytes, 0)) => pc # "returned"

\* C5: overlong rejection.  A sequence with a valid lead and valid
\* continuation bytes whose value is below the minimum of its length class
\* fails with OverlongEncoding.
C5_OverlongRejected ==
  (/\ Called
   /\ Structured(bytes, last.start)
   /\ ValueAt(bytes, last.start) < MinOfLength(LeadLength(bytes[last.start + 1])))
    => last.ret.kind = "OverlongEncoding"

\* C6: invalid lead rejection.  When the byte at the cursor on entry is in
\* [0x80, 0xBF] or is >= 0xF8, the call fails with InvalidLeadByte whatever
\* follows.
C6_InvalidLeadRejected ==
  (/\ Called
   /\ last.start < Len(bytes)
   /\ \/ IsContinuation(bytes[last.start + 1])
      \/ bytes[last.start + 1] >= 248)
    => last.ret.kind = "InvalidLeadByte"

\* C7: invalid continuation rejection.  For a valid multi-byte lead, if a
\* required following byte that is present lies outside [0x80, 0xBF], the
\* call fails with InvalidContinuationByte.
C7_InvalidContinuationRejected ==
  (/\ Called
   /\ last.start < Len(bytes)
   /\ LeadLength(bytes[last.start + 1]) >= 2
   /\ \E k \in 1..(LeadLength(bytes[last.start + 1]) - 1) :
        /\ last.start + k < Len(bytes)
        /\ ~IsContinuation(bytes[last.start + k + 1]))
    => last.ret.kind = "InvalidContinuationByte"

\* C8: every code point next_codepoint returns is a Unicode scalar value; a
\* structurally well-formed, non-overlong sequence whose value is above
\* 0x10FFFF or a surrogate fails with InvalidCodePoint.
C8_ReturnsScalarValues ==
  /\ (Called /\ last.ret.kind = "value") => IsScalar(last.ret.value)
  /\ (/\ Called
      /\ Structured(bytes, last.start)
      /\ ValueAt(bytes, last.start) >= MinOfLength(LeadLength(bytes[last.start + 1]))
      /\ ~IsScalar(ValueAt(bytes, last.start)))
       => last.ret.kind = "InvalidCodePoint"

\* C9: decode stops at the first failing step.  It appends nothing for a
\* step that produced no code point, and for a buffer holding a malformed or
\* truncated sequence it does not return a code-point sequence as success.
C9_DecodeStopsAtFirstError ==
  entry = "decode" =>
    /\ (Called /\ last.ret.kind # "value") => Len(codepoints) < calls
    /\ ~WellFormedBuffer(bytes) => pc # "returned"

\* C10: cursor safety and progress, for every buffer.  A call reads only
\* offsets before end, never moves the cursor backward or past end, leaves
\* it unchanged when called at end and otherwise advances it by 1 to 4; the
\* decode loop makes at most |bytes| calls.
C10_CursorSafety ==
  /\ iter <= Len(bytes)
  /\ Called =>
       /\ \A r \in last.reads : 0 <= r /\ r < Len(bytes)
       /\ last.start <= last.iter /\ last.iter <= Len(bytes)
       /\ last.iter = iter
       /\ last.start = Len(bytes) => (last.iter = last.start /\ last.reads = {})
       /\ last.start < Len(bytes) =>
            (1 <= last.iter - last.start /\ last.iter - last.start <= 4)
  /\ entry # "step" => (calls <= iter /\ calls <= Len(bytes))
  /\ (pc = "decode" /\ iter # Len(bytes)) => calls < Len(bytes)

\* A single-step caller has met a truncated sequence (0xE2 0x82 and the end)
\* and then called once more with the cursor at end.
C10_Witness ==
  /\ entry = "step"
  /\ bytes = <<226, 130>>
  /\ calls = 2
  /\ last.start = 2 /\ last.iter = 2
  /\ last.ret = Nothing

====
